---------------------------- MODULE Spec2Model ----------------------------
(***************************************************************************)
(* Model of package bytez: AsStr (byte count -> size string), AsInt (size  *)
(* string -> byte count) and the Size type's text hooks.                   *)
(*                                                                         *)
(* A uint64 is a sequence of Limbs digits in base Radix, least significant *)
(* first; every operation on it is exact and wraps modulo 2^64 as Go's     *)
(* unsigned arithmetic does.  A Go string is a sequence of one-character   *)
(* strings.                                                                *)
(***************************************************************************)
EXTENDS Integers, Sequences, FiniteSets, TLC

VARIABLES sz, op, size, out, str, num, err

vars == <<sz, op, size, out, str, num, err>>

(***************************************************************************)
(* uint64 arithmetic                                                       *)
(***************************************************************************)
Radix == 2^8
Limbs == 64 \div 8

Zero64 == <<0, 0, 0, 0, 0, 0, 0, 0>>
MaxUint64 == <<Radix - 1, Radix - 1, Radix - 1, Radix - 1,
               Radix - 1, Radix - 1, Radix - 1, Radix - 1>>

\* uint64(n) for a literal 0 <= n < 2^31
U64(n) ==
    <<n % Radix, (n \div Radix) % Radix, (n \div (Radix * Radix)) % Radix,
      n \div (Radix * Radix * Radix), 0, 0, 0, 0>>

RECURSIVE AddCarry(_, _, _, _)
AddCarry(a, b, i, c) ==
    IF i > Limbs THEN <<>>
    ELSE LET s == a[i] + b[i] + c
         IN  <<s % Radix>> \o AddCarry(a, b, i + 1, s \div Radix)

\* a + b
AddU64(a, b) == AddCarry(a, b, 1, 0)

RECURSIVE SubBorrow(_, _, _, _)
SubBorrow(a, b, i, c) ==
    IF i > Limbs THEN <<>>
    ELSE LET s == a[i] - b[i] - c
         IN  <<s % Radix>> \o SubBorrow(a, b, i + 1, IF s < 0 THEN 1 ELSE 0)

\* a - b
SubU64(a, b) == SubBorrow(a, b, 1, 0)

RECURSIVE LessFrom(_, _, _)
LessFrom(a, b, i) ==
    IF i = 0 THEN FALSE
    ELSE IF a[i] # b[i] THEN a[i] < b[i]
    ELSE LessFrom(a, b, i - 1)

\* a < b
LessU64(a, b) == LessFrom(a, b, Limbs)

\* a >= b
GeqU64(a, b) == ~LessU64(a, b)

RECURSIVE ColumnSum(_, _, _, _)
ColumnSum(a, b, k, i) ==
    IF i > k THEN 0 ELSE a[i] * b[k + 1 - i] + ColumnSum(a, b, k, i + 1)

RECURSIVE MulCarry(_, _, _, _)
MulCarry(a, b, k, c) ==
    IF k > Limbs THEN <<>>
    ELSE LET s == ColumnSum(a, b, k, 1) + c
         IN  <<s % Radix>> \o MulCarry(a, b, k + 1, s \div Radix)

\* the value is below 2^23: a limb times it, plus a carry, fits in an Int
IsShort(b) == b[3] < Radix \div 2 /\ \A i \in 4..Limbs : b[i] = 0

ShortVal(b) == b[1] + b[2] * Radix + b[3] * Radix * Radix

\* a * k for 0 <= k < 2^23, one limb of a at a time
RECURSIVE MulShortCarry(_, _, _, _)
MulShortCarry(a, k, i, c) ==
    IF i > Limbs THEN <<>>
    ELSE LET s == a[i] * k + c
         IN  <<s % Radix>> \o MulShortCarry(a, k, i + 1, s \div Radix)

\* a * b
MulU64(a, b) ==
    IF IsShort(b) THEN MulShortCarry(a, ShortVal(b), 1, 0)
    ELSE IF IsShort(a) THEN MulShortCarry(b, ShortVal(a), 1, 0)
    ELSE MulCarry(a, b, 1, 0)

\* short division by 0 < d < 2^23, most significant limb first;
\* returns <<quotient limbs (least significant first), remainder>>
RECURSIVE ShortDiv(_, _, _, _, _)
ShortDiv(a, d, i, q, r) ==
    IF i = 0 THEN <<q, r>>
    ELSE LET t == r * Radix + a[i]
         IN  ShortDiv(a, d, i - 1, <<t \div d>> \o q, t % d)

\* a * Radix^s
ShiftLimbs(a, s) == SubSeq(Zero64, 1, s) \o SubSeq(a, 1, Limbs - s)

\* index of the most significant non-zero limb (a # 0)
TopLimb(a) == CHOOSE i \in 1..Limbs : a[i] # 0 /\ \A j \in (i + 1)..Limbs : a[j] = 0

\* A multiple e * Radix^s >= 1 of b that fits in r, for r >= b and b of at
\* least three limbs: e is the leading limbs of r divided by one more than
\* the two leading limbs of b, so that e * b * Radix^s <= r.
Estimate(r, b) ==
    LET k  == TopLimb(b)
        j  == TopLimb(r)
        bt == b[k] * Radix + b[k - 1] + 1
    IN  IF j = k
        THEN LET e == (r[j] * Radix + r[j - 1]) \div bt
             IN  [e |-> IF e = 0 THEN 1 ELSE e, s |-> 0]
        ELSE [e |-> (r[j] * Radix * Radix + r[j - 1] * Radix + r[j - 2]) \div bt,
              s |-> j - k - 1]

\* long division by estimate and subtract: a = q * b + r holds throughout,
\* and r < b when it ends; returns <<quotient, remainder>>
RECURSIVE LongDiv(_, _, _, _)
LongDiv(a, b, q, r) ==
    IF LessU64(r, b) THEN <<q, r>>
    ELSE LET es == Estimate(r, b)
             f  == ShiftLimbs(U64(es.e), es.s)
         IN  LongDiv(a, b, AddU64(q, f), SubU64(r, MulU64(b, f)))

DivMod(a, b) ==
    IF IsShort(b)
    THEN LET qr == ShortDiv(a, ShortVal(b), Limbs, <<>>, 0)
         IN  <<qr[1], U64(qr[2])>>
    ELSE LongDiv(a, b, Zero64, a)

\* a / b  (b # 0)
DivU64(a, b) == DivMod(a, b)[1]

\* a % b  (b # 0)
ModU64(a, b) == DivMod(a, b)[2]

(***************************************************************************)
(* Strings                                                                 *)
(***************************************************************************)
DigitChars == <<"0", "1", "2", "3", "4", "5", "6", "7", "8", "9">>

LowerChars == <<"a", "b", "c", "d", "e", "f", "g", "h", "i", "j", "k", "l", "m",
                "n", "o", "p", "q", "r", "s", "t", "u", "v", "w", "x", "y", "z">>

UpperChars == <<"A", "B", "C", "D", "E", "F", "G", "H", "I", "J", "K", "L", "M",
                "N", "O", "P", "Q", "R", "S", "T", "U", "V", "W", "X", "Y", "Z">>

Range(f) == {f[i] : i \in DOMAIN f}

\* str[idx] < '0' || str[idx] > '9' is false
IsDigit(c) == c \in Range(DigitChars)

\* str[idx] - '0'
DigitVal(c) == (CHOOSE i \in DOMAIN DigitChars : DigitChars[i] = c) - 1

\* A byte of 0x80..0xFF is written "0xHH".  These are the ones whose value,
\* taken as a code point (U+0080..U+00FF), is a letter: U+00AA, U+00B5,
\* U+00BA, U+00C0..U+00D6, U+00D8..U+00F6 and U+00F8..U+00FF.
Latin1Letters ==
    {"0xAA", "0xB5", "0xBA",
     "0xC0", "0xC1", "0xC2", "0xC3", "0xC4", "0xC5", "0xC6", "0xC7",
     "0xC8", "0xC9", "0xCA", "0xCB", "0xCC", "0xCD", "0xCE", "0xCF",
     "0xD0", "0xD1", "0xD2", "0xD3", "0xD4", "0xD5", "0xD6",
     "0xD8", "0xD9", "0xDA", "0xDB", "0xDC", "0xDD", "0xDE", "0xDF",
     "0xE0", "0xE1", "0xE2", "0xE3", "0xE4", "0xE5", "0xE6", "0xE7",
     "0xE8", "0xE9", "0xEA", "0xEB", "0xEC", "0xED", "0xEE", "0xEF",
     "0xF0", "0xF1", "0xF2", "0xF3", "0xF4", "0xF5", "0xF6",
     "0xF8", "0xF9", "0xFA", "0xFB", "0xFC", "0xFD", "0xFE", "0xFF"}

\* unicode.IsLetter(rune(c)) for the byte c: the conversion takes the byte's
\* value as the code point, whatever character the byte is part of
IsLetter(c) == c \in Range(LowerChars) \cup Range(UpperChars) \cup Latin1Letters

\* Go's str[from:] (from is 0-based)
Suffix(s, from) == SubSeq(s, from + 1, Len(s))

\* strconv.FormatUint(v, 10)
RECURSIVE FormatUint(_)
FormatUint(v) ==
    LET qr == DivMod(v, U64(10))
        d  == <<DigitChars[qr[2][1] + 1]>>
    IN  IF qr[1] = Zero64 THEN d ELSE FormatUint(qr[1]) \o d

RECURSIVE TrimLeft(_, _)
TrimLeft(s, cutset) ==
    IF s # <<>> /\ Head(s) \in cutset THEN TrimLeft(Tail(s), cutset) ELSE s

RECURSIVE TrimRight(_, _)
TrimRight(s, cutset) ==
    IF s # <<>> /\ s[Len(s)] \in cutset
    THEN TrimRight(SubSeq(s, 1, Len(s) - 1), cutset)
    ELSE s

\* strings.Trim(s, cutset)
Trim(s, cutset) == TrimRight(TrimLeft(s, cutset), cutset)

(***************************************************************************)
(* Unit constants and tables                                               *)
(***************************************************************************)
Kilobyte == U64(1000)
Megabyte == MulU64(Kilobyte, U64(1000))
Gigabyte == MulU64(Megabyte, U64(1000))
Terabyte == MulU64(Gigabyte, U64(1000))
Petabyte == MulU64(Terabyte, U64(1000))
Exabyte  == MulU64(Petabyte, U64(1000))

Kibibyte == U64(1024)
Mebibyte == MulU64(Kibibyte, U64(1024))
Gibibyte == MulU64(Mebibyte, U64(1024))
Tebibyte == MulU64(Gibibyte, U64(1024))
Pebibyte == MulU64(Tebibyte, U64(1024))
Exbibyte == MulU64(Pebibyte, U64(1024))

unitMap ==
    <<"k">> :> Kilobyte @@ <<"k", "b">> :> Kilobyte @@ <<"k", "B">> :> Kilobyte @@
    <<"m">> :> Megabyte @@ <<"m", "b">> :> Megabyte @@ <<"m", "B">> :> Megabyte @@
    <<"g">> :> Gigabyte @@ <<"g", "b">> :> Gigabyte @@ <<"g", "B">> :> Gigabyte @@
    <<"t">> :> Terabyte @@ <<"t", "b">> :> Terabyte @@ <<"t", "B">> :> Terabyte @@
    <<"p">> :> Petabyte @@ <<"p", "b">> :> Petabyte @@ <<"p", "B">> :> Petabyte @@
    <<"e">> :> Exabyte @@ <<"e", "b">> :> Exabyte @@ <<"e", "B">> :> Exabyte @@
    <<"K">> :> Kibibyte @@ <<"K", "B">> :> Kibibyte @@ <<"K", "b">> :> Kibibyte @@
        <<"K", "i", "B">> :> Kibibyte @@
    <<"M">> :> Mebibyte @@ <<"M", "B">> :> Mebibyte @@ <<"M", "b">> :> Mebibyte @@
        <<"M", "i", "B">> :> Mebibyte @@
    <<"G">> :> Gibibyte @@ <<"G", "B">> :> Gibibyte @@ <<"G", "b">> :> Gibibyte @@
        <<"G", "i", "B">> :> Gibibyte @@
    <<"T">> :> Tebibyte @@ <<"T", "B">> :> Tebibyte @@ <<"T", "b">> :> Tebibyte @@
        <<"T", "i", "B">> :> Tebibyte @@
    <<"P">> :> Pebibyte @@ <<"P", "B">> :> Pebibyte @@ <<"P", "b">> :> Pebibyte @@
        <<"P", "i", "B">> :> Pebibyte @@
    <<"E">> :> Exbibyte @@ <<"E", "B">> :> Exbibyte @@ <<"E", "b">> :> Exbibyte @@
        <<"E", "i", "B">> :> Exbibyte

\* the slices are indexed from 0 in the source and from 1 here
unitsBase2 == << <<>>, <<"K", "i", "B">>, <<"M", "i", "B">>, <<"G", "i", "B">>,
                 <<"T", "i", "B">>, <<"P", "i", "B">>, <<"E", "i", "B">> >>
unitsBase10 == << <<>>, <<"k", "b">>, <<"m", "b">>, <<"g", "b">>,
                  <<"t", "b">>, <<"p", "b">>, <<"e", "b">> >>
valuesBase2 == <<U64(1), Kibibyte, Mebibyte, Gibibyte, Tebibyte, Pebibyte, Exbibyte>>
valuesBase10 == <<U64(1), Kilobyte, Megabyte, Gigabyte, Terabyte, Petabyte, Exabyte>>

(***************************************************************************)
(* AsStr                                                                   *)
(***************************************************************************)
\* the family AsStr picks: base 0 stands for the early return of the
\* plain digits
FamilyBinaryFirst(v) ==
    IF ModU64(v, U64(512)) = Zero64
    THEN [base |-> 1024, values |-> valuesBase2, units |-> unitsBase2]
    ELSE IF ModU64(v, U64(500)) = Zero64
    THEN [base |-> 1000, values |-> valuesBase10, units |-> unitsBase10]
    ELSE [base |-> 0, values |-> <<>>, units |-> <<>>]

Family(v) ==
    IF ModU64(v, U64(500)) = Zero64
    THEN [base |-> 1000, values |-> valuesBase10, units |-> unitsBase10]
    ELSE IF ModU64(v, U64(512)) = Zero64
    THEN [base |-> 1024, values |-> valuesBase2, units |-> unitsBase2]
    ELSE [base |-> 0, values |-> <<>>, units |-> <<>>]

\* the loop with the test sz > base in place of sz >= base
RECURSIVE UnitIndexStrict(_, _, _)
UnitIndexStrict(v, base, idx) ==
    IF LessU64(U64(base), v)
    THEN UnitIndexStrict(DivU64(v, U64(base)), base, idx + 1)
    ELSE idx

\* for sz := size; sz >= base; sz /= base { idx++ }
RECURSIVE UnitIndex(_, _, _)
UnitIndex(v, base, idx) ==
    IF GeqU64(v, U64(base))
    THEN UnitIndex(DivU64(v, U64(base)), base, idx + 1)
    ELSE idx

\* whether AsStr appends ".5": size % values[idx] != 0
HasHalf(v, values, idx) == ModU64(v, values[idx + 1]) # Zero64

AsStr(v) ==
    IF LessU64(v, U64(1000)) THEN FormatUint(v)
    ELSE LET f == Family(v)
         IN  IF f.base = 0 THEN FormatUint(v)
             ELSE LET idx == UnitIndex(v, f.base, 0)
                  IN  FormatUint(DivU64(v, f.values[idx + 1]))
                         \o (IF HasHalf(v, f.values, idx) THEN <<".", "5">> ELSE <<>>)
                         \o f.units[idx + 1]

(***************************************************************************)
(* AsInt                                                                   *)
(***************************************************************************)
Nil == "nil"
ErrNoNumber == "no number in string"
ErrFraction == "invalid fractional part"
ErrMissingUnits == "missing units"
ErrDelimiter == "invalid delimiter"
ErrUnits == "invalid units"

WhiteSpace == {" ", "\t", "\r", "\n"}

\* the digit loop on st = <<idx, num>>: the pair when the loop ends
\* (idx is 0-based, as in the source)
RECURSIVE ScanNumber(_, _)
ScanNumber(s, st) ==
    IF st[1] < Len(s) /\ IsDigit(s[st[1] + 1])
    THEN ScanNumber(s, <<st[1] + 1,
                         AddU64(MulU64(st[2], U64(10)), U64(DigitVal(s[st[1] + 1])))>>)
    ELSE st

\* the optional fraction at idx: the index after it, addHalf, and whether
\* it is valid
Fraction(s, idx) ==
    IF s[idx + 1] = "."
    THEN IF idx < Len(s) - 1 /\ SubSeq(s, idx + 1, idx + 2) = <<".", "5">>
         THEN [idx |-> idx + 2, addHalf |-> 1, ok |-> TRUE]
         ELSE IF idx < Len(s) - 1 /\ SubSeq(s, idx + 1, idx + 2) = <<".", "0">>
         THEN [idx |-> idx + 2, addHalf |-> 0, ok |-> TRUE]
         ELSE [idx |-> idx, addHalf |-> 0, ok |-> FALSE]
    ELSE [idx |-> idx, addHalf |-> 0, ok |-> TRUE]

RECURSIVE SkipSpaces(_, _)
SkipSpaces(s, idx) ==
    IF idx < Len(s) /\ s[idx + 1] = " " THEN SkipSpaces(s, idx + 1) ELSE idx

\* if idx < len(str) && str[idx] == ' ' { idx++ }
SkipSpace(s, idx) ==
    IF idx < Len(s) /\ s[idx + 1] = " " THEN idx + 1 ELSE idx

FoldFirst(label) ==
    IF label # <<>> /\ label[1] \in Range(UpperChars)
    THEN <<LowerChars[CHOOSE i \in DOMAIN UpperChars : UpperChars[i] = label[1]]>>
            \o Tail(label)
    ELSE label

LookupIgnoringCase(label) ==
    IF FoldFirst(label) \in DOMAIN unitMap
    THEN [ok |-> TRUE, val |-> unitMap[FoldFirst(label)]]
    ELSE [ok |-> FALSE, val |-> Zero64]

\* val, ok := unitMap[label]
Lookup(label) ==
    IF label \in DOMAIN unitMap
    THEN [ok |-> TRUE, val |-> unitMap[label]]
    ELSE [ok |-> FALSE, val |-> Zero64]

\* the returned (uint64, error)
AsInt(s0) ==
    LET s    == Trim(s0, WhiteSpace)
        scan == ScanNumber(s, <<0, Zero64>>)
        idx0 == scan[1]
        n    == scan[2]
    IN  IF idx0 = 0 THEN [num |-> Zero64, err |-> ErrNoNumber]
        ELSE IF idx0 = Len(s) THEN [num |-> n, err |-> Nil]
        ELSE LET fr == Fraction(s, idx0)
             IN  IF ~fr.ok THEN [num |-> Zero64, err |-> ErrFraction]
                 ELSE LET idx == SkipSpace(s, fr.idx)
                          u   == Lookup(Suffix(s, idx))
                      IN  IF Suffix(s, idx) = <<>>
                          THEN [num |-> Zero64, err |-> ErrMissingUnits]
                          ELSE IF ~IsLetter(s[idx + 1])
                          THEN [num |-> Zero64, err |-> ErrDelimiter]
                          ELSE IF u.ok
                          THEN [num |-> AddU64(MulU64(n, u.val),
                                               MulU64(DivU64(u.val, U64(2)),
                                                      U64(fr.addHalf))),
                                err |-> Nil]
                          ELSE [num |-> Zero64, err |-> ErrUnits]

(***************************************************************************)
(* Size                                                                    *)
(***************************************************************************)
\* the receiver and the returned error of the mutant that stores the value
\* before it tests the error
UnmarshalStoreFirst(recv, bytes) ==
    LET r == AsInt(bytes)
    IN  [sz |-> r.num, err |-> r.err]

\* func (sz *Size) UnmarshalText(bytes []byte) error:
\* the receiver afterwards and the returned error
UnmarshalResult(recv, bytes) ==
    LET r == AsInt(bytes)
    IN  IF r.err # Nil THEN [sz |-> recv, err |-> r.err]
        ELSE [sz |-> r.num, err |-> Nil]

\* func (sz Size) MarshalText() ([]byte, error)
MarshalResult(recv) == [bytes |-> AsStr(recv), err |-> Nil]

(***************************************************************************)
(* Inputs                                                                  *)
(***************************************************************************)
MaxCount == 3
MaxLen == 3

Counts == (1..MaxCount) \cup {15, 18, 62, 999, 1000, 1023, 1024, 1025}

Multipliers == {valuesBase10[i] : i \in 2..7} \cup {valuesBase2[i] : i \in 2..7}

Offsets(m) == {Zero64, DivU64(m, U64(2)), U64(1), U64(500), U64(512)}

SmallSizes == {0, 1, 9, 10, 499, 500, 512, 999, 1000, 1001, 1023, 1024, 1500, 1536,
               64000, 1000500, 1024000, 1049600, 105381888}

Sizes ==
    {U64(n) : n \in SmallSizes}
    \cup {AddU64(MulU64(U64(n), m), d) : <<n, m, d>> \in
            {<<n, m, d>> \in Counts \X Multipliers \X UNION {Offsets(m) : m \in Multipliers} :
                d \in Offsets(m)}}
    \cup {MaxUint64, SubU64(MaxUint64, U64(511)), SubU64(MaxUint64, U64(615)),
          AddU64(MulU64(U64(314159), U64(1000000)), U64(265359))}

Alphabet == {"4", "0", "5", ".", " ", "\t", "k", "K", "i", "B"}

RECURSIVE Strings(_)
Strings(n) ==
    IF n = 0 THEN {<<>>}
    ELSE LET shorter == Strings(n - 1)
         IN  shorter \cup {Append(s, c) : <<s, c>> \in shorter \X Alphabet}

DigitRuns ==
    {<<>>,
     <<"4">>,
     <<"0">>,
     <<"2", "0">>,
     <<"0", "0", "7">>,
     <<"1", "8">>,
     <<"4", "3", "2", "1">>,
     <<"1", "8", "4", "4", "6", "7", "4", "4", "0", "7", "3", "7", "0", "9", "5", "5", "1", "6", "1", "5">>,
     <<"1", "8", "4", "4", "6", "7", "4", "4", "0", "7", "3", "7", "0", "9", "5", "5", "1", "6", "1", "6">>,
     <<"1", "0", "0", "0", "0", "0", "0", "0", "0", "0", "0", "0", "0", "0", "0", "0", "0", "0", "0", "0", "0">>}

Fractions == {<<>>, <<".", "5">>, <<".", "0">>, <<".">>, <<".", "9">>, <<".", "5", "5">>}

Separators == {<<>>, <<" ">>, <<" ", " ">>, <<"\t">>}

\* the UTF-8 bytes of U+00A3 (pound sign), U+00E9 (e with acute) and
\* U+05D0 (Hebrew alef)
PoundSign == <<"0xC2", "0xA3">>
EAcute == <<"0xC3", "0xA9">>
Alef == <<"0xD7", "0x90">>

Labels == DOMAIN unitMap \cup {<<>>, <<"x">>, <<"b">>, <<"k", "i", "b">>, <<"K", "I", "B">>, <<"k", "b", "b">>, <<"i", "B">>, <<"4">>, <<"-">>, <<"k", " ">>, <<"k", "4">>}
             \cup {PoundSign, EAcute, Alef, Alef \o <<"k">>, <<"k">> \o PoundSign}

Paddings == {<< <<>>, <<>> >>, << <<" ", "\t">>, <<"\r", "\n", " ">> >>}

Texts ==
    Strings(MaxLen)
    \cup {p[1] \o d \o f \o s \o l \o p[2] : <<p, d, f, s, l>> \in
            Paddings \X DigitRuns \X Fractions \X Separators \X Labels}

SizeTexts ==
    {d \o f \o l : <<d, f, l>> \in
        {<<>>, <<"4">>, <<"5", "0">>} \X {<<>>, <<".", "5">>, <<".">>}
            \X {<<>>, <<"k">>, <<"m", "b">>, <<"M", "i", "B">>, <<"x">>}}
    \cup {FormatUint(U64(n)) : n \in {1000500, 105381888}}

(***************************************************************************)
(* The Size value and its text hooks                                       *)
(***************************************************************************)
Init ==
    /\ sz = Zero64
    /\ op = "start"
    /\ size = Zero64
    /\ out = <<>>
    /\ str = <<>>
    /\ num = Zero64
    /\ err = Nil

UnmarshalText(bytes) ==
    LET r == UnmarshalResult(sz, bytes)
    IN  /\ op' = "UnmarshalText"
        /\ str' = bytes
        /\ sz' = r.sz
        /\ err' = r.err
        /\ out' = <<>>
        /\ UNCHANGED <<size, num>>

MarshalText ==
    LET r == MarshalResult(sz)
    IN  /\ op' = "MarshalText"
        /\ out' = r.bytes
        /\ err' = r.err
        /\ str' = <<>>
        /\ UNCHANGED <<sz, size, num>>

Next ==
    \/ \E bytes \in SizeTexts : UnmarshalText(bytes)
    \/ MarshalText

Spec == Init /\ [][Next]_vars

(***************************************************************************)
(* AsStr on every size of Sizes, and AsInt on what it returned             *)
(***************************************************************************)
InitAsStr ==
    /\ sz = Zero64
    /\ op = "start"
    /\ size \in Sizes
    /\ out = <<>>
    /\ str = <<>>
    /\ num = Zero64
    /\ err = Nil

CallAsStr ==
    /\ op = "start"
    /\ op' = "AsStr"
    /\ out' = AsStr(size)
    /\ UNCHANGED <<sz, size, str, num, err>>

ParseBack ==
    /\ op = "AsStr"
    /\ op' = "AsInt"
    /\ str' = out
    /\ LET r == AsInt(out)
       IN  num' = r.num /\ err' = r.err
    /\ UNCHANGED <<sz, size, out>>

NextAsStr == CallAsStr \/ ParseBack

SpecAsStr == InitAsStr /\ [][NextAsStr]_vars

(***************************************************************************)
(* AsInt on every string of Texts                                          *)
(***************************************************************************)
InitAsInt ==
    /\ sz = Zero64
    /\ op = "start"
    /\ size = Zero64
    /\ out = <<>>
    /\ str \in Texts
    /\ num = Zero64
    /\ err = Nil

CallAsInt ==
    /\ op = "start"
    /\ op' = "AsInt"
    /\ LET r == AsInt(str)
       IN  num' = r.num /\ err' = r.err
    /\ UNCHANGED <<sz, size, out, str>>

NextAsInt == CallAsInt

SpecAsInt == InitAsInt /\ [][NextAsInt]_vars

(***************************************************************************)
(* Vocabulary of the properties                                            *)
(***************************************************************************)
EndsWith(s, suffix) ==
    Len(s) >= Len(suffix) /\ SubSeq(s, Len(s) - Len(suffix) + 1, Len(s)) = suffix

AllDigits(s) == \A i \in 1..Len(s) : IsDigit(s[i])

\* the non-empty digit string s is the decimal numeral (leading zeros
\* allowed) of exactly v: its digits are peeled off v from the right, so no
\* arithmetic of the check can wrap
RECURSIVE Denotes(_, _)
Denotes(s, v) ==
    /\ s # <<>>
    /\ IsDigit(s[Len(s)])
    /\ LET qr == DivMod(v, U64(10))
       IN  /\ qr[2] = U64(DigitVal(s[Len(s)]))
           /\ IF Len(s) = 1 THEN qr[1] = Zero64
              ELSE Denotes(SubSeq(s, 1, Len(s) - 1), qr[1])

\* s is the plain decimal digits of v
PlainDigits(s, v) == Denotes(s, v) /\ (Len(s) = 1 \/ s[1] # "0")

\* s without its leading and trailing space, tab, CR and LF
Stripped(s) ==
    IF \A i \in 1..Len(s) : s[i] \in {" ", "\t", "\r", "\n"} THEN <<>>
    ELSE LET first == CHOOSE i \in 1..Len(s) :
                        /\ s[i] \notin {" ", "\t", "\r", "\n"}
                        /\ \A j \in 1..(i - 1) : s[j] \in {" ", "\t", "\r", "\n"}
             last  == CHOOSE i \in 1..Len(s) :
                        /\ s[i] \notin {" ", "\t", "\r", "\n"}
                        /\ \A j \in (i + 1)..Len(s) : s[j] \in {" ", "\t", "\r", "\n"}
         IN  SubSeq(s, first, last)

\* the length of the leading run of digits of s
DigitRunLen(s) ==
    CHOOSE d \in 0..Len(s) :
        /\ AllDigits(SubSeq(s, 1, d))
        /\ d = Len(s) \/ ~IsDigit(s[d + 1])

\* the documented grammar: <digits> or <digits>[.5|.0][ ]<unit-label>
InGrammar(s) ==
    LET t == Stripped(s)
    IN  \E d \in 1..Len(t) :
            /\ AllDigits(SubSeq(t, 1, d))
            /\ \/ d = Len(t)
               \/ \E f \in {<<>>, <<".", "5">>, <<".", "0">>} :
                  \E sp \in {<<>>, <<" ">>} :
                  \E l \in DOMAIN unitMap :
                      Suffix(t, d) = f \o sp \o l

RECURSIVE Power(_, _)
Power(b, i) == IF i = 0 THEN U64(1) ELSE MulU64(Power(b, i - 1), U64(b))

DecimalLetters == <<"k", "m", "g", "t", "p", "e">>
BinaryLetters == <<"K", "M", "G", "T", "P", "E">>

\* the multiplier the case rule gives a label, from its first letter alone
CaseRuleMultiplier(label) ==
    IF label[1] \in Range(DecimalLetters)
    THEN Power(1000, CHOOSE i \in 1..6 : DecimalLetters[i] = label[1])
    ELSE Power(1024, CHOOSE i \in 1..6 : BinaryLetters[i] = label[1])

\* the accepted string s denotes exactly v: digits * multiplier, plus half
\* the multiplier after ".5"
ExactValue(s, v) ==
    LET t    == Stripped(s)
        d    == DigitRunLen(t)
        rest == Suffix(t, d)
        half == Len(rest) >= 2 /\ SubSeq(rest, 1, 2) = <<".", "5">>
        frac == rest # <<>> /\ rest[1] = "."
        sep  == IF frac THEN Suffix(rest, 2) ELSE rest
        lab  == IF sep # <<>> /\ sep[1] = " " THEN Tail(sep) ELSE sep
        m    == unitMap[lab]
        h    == IF half THEN DivU64(m, U64(2)) ELSE Zero64
    IN  IF rest = <<>> THEN Denotes(t, v)
        ELSE /\ GeqU64(v, h)
             /\ ModU64(SubU64(v, h), m) = Zero64
             /\ Denotes(SubSeq(t, 1, d), DivU64(SubU64(v, h), m))

\* s is a number of whole or half units followed by a label of the family
UsesLabelOf(s, units) ==
    \E i \in 2..7 :
        /\ EndsWith(s, units[i])
        /\ LET n == SubSeq(s, 1, Len(s) - Len(units[i]))
           IN  \/ AllDigits(n) /\ n # <<>>
               \/ /\ EndsWith(n, <<".", "5">>)
                  /\ AllDigits(SubSeq(n, 1, Len(n) - 2))
                  /\ Len(n) > 2

\* the first character of s is alphabetic: an ASCII letter, or one of the
\* multi-byte letters of the inputs
StartsWithLetter(s) ==
    /\ s # <<>>
    /\ \/ s[1] \in Range(LowerChars) \cup Range(UpperChars)
       \/ \E c \in {EAcute, Alef} : Len(s) >= Len(c) /\ SubSeq(s, 1, Len(c)) = c

\* the error the documented classification gives the trimmed string t, Nil
\* when no step fails.  A bare digit run is accepted: "missing units" is
\* read as applying once a fraction or a space has been consumed.
ClassifiedError(t) ==
    IF t = <<>> \/ ~IsDigit(t[1]) THEN ErrNoNumber
    ELSE LET rest  == Suffix(t, DigitRunLen(t))
             frac  == rest # <<>> /\ rest[1] = "."
             after == IF frac THEN Suffix(rest, 2) ELSE rest
             left  == IF after # <<>> /\ after[1] = " " THEN Tail(after) ELSE after
         IN  IF rest = <<>> THEN Nil
             ELSE IF frac /\ ~(Len(rest) >= 2 /\ rest[2] \in {"5", "0"}) THEN ErrFraction
             ELSE IF left = <<>> THEN ErrMissingUnits
             ELSE IF ~StartsWithLetter(left) THEN ErrDelimiter
             ELSE IF left \notin DOMAIN unitMap THEN ErrUnits
             ELSE Nil

\* the largest i of 0..6 with base^i <= v (base^7 is beyond 64 bits)
LargestPower(v, base) ==
    CHOOSE i \in 0..6 :
        /\ GeqU64(v, Power(base, i))
        /\ i = 6 \/ LessU64(v, Power(base, i + 1))

\* base^7 does not fit in 64 bits, and values holds the powers of base
TablesArePowers ==
    /\ \A base \in {1000, 1024} :
           LessU64(DivU64(MaxUint64, Power(base, 6)), U64(base))
    /\ \A i \in 0..6 :
           /\ valuesBase10[i + 1] = Power(1000, i)
           /\ valuesBase2[i + 1] = Power(1024, i)
    /\ Len(unitsBase10) = Len(valuesBase10)
    /\ Len(unitsBase2) = Len(valuesBase2)

(***************************************************************************)
(* Properties                                                              *)
(***************************************************************************)

\* C1: AsInt(AsStr(v)) returns no error and returns exactly v, for every v.
\* Refuted: AsStr(1000500) = "1.5mb", which AsInt reads as 1500000.
C1_RoundTrip ==
    op = "AsInt" => err = Nil /\ num = size

\* C2: for every v >= 1000 exactly divisible by a decimal multiplier 1000^i,
\* AsStr(v) ends in a lowercase two-letter label and AsInt(AsStr(v)) = v.
\* (Any decimal label is let pass for "the corresponding label".)
\* Refuted: AsStr(1023000) = "1.5mb", which AsInt reads as 1500000.
C2_DecimalRoundTrip ==
    (/\ op = "AsInt"
     /\ GeqU64(size, U64(1000))
     /\ \E i \in 2..7 : ModU64(size, valuesBase10[i]) = Zero64)
    => /\ \E i \in 2..7 : EndsWith(out, unitsBase10[i])
       /\ err = Nil
       /\ num = size

\* C3: for every v exactly divisible by a binary multiplier 1024^i and not
\* divisible by 500, AsStr(v) ends in a mixed-case three-letter label and
\* AsInt(AsStr(v)) = v.  (Any binary label is let pass for "the
\* corresponding label".)
\* Refuted: AsStr(1049600) = "1.5MiB", which AsInt reads as 1572864.
C3_BinaryRoundTrip ==
    (/\ op = "AsInt"
     /\ ModU64(size, U64(500)) # Zero64
     /\ \E i \in 2..7 : ModU64(size, valuesBase2[i]) = Zero64)
    => /\ \E i \in 2..7 : EndsWith(out, unitsBase2[i])
       /\ err = Nil
       /\ num = size

\* C4: for every multiplier m and n >= 1, AsStr(n*m + m/2) ends in ".5"
\* followed by the label of m, and AsInt of it returns n*m + m/2.
\* Refuted: AsStr(1000*1000 + 500) = "1.5mb", read back as 1500000.
C4_HalfUnit ==
    op = "AsInt" =>
        \A i \in 2..7 :
            /\ (GeqU64(size, valuesBase10[i])
                /\ ModU64(size, valuesBase10[i]) = DivU64(valuesBase10[i], U64(2)))
               => /\ EndsWith(out, <<".", "5">> \o unitsBase10[i])
                  /\ err = Nil /\ num = size
            /\ (GeqU64(size, valuesBase2[i])
                /\ ModU64(size, valuesBase2[i]) = DivU64(valuesBase2[i], U64(2)))
               => /\ EndsWith(out, <<".", "5">> \o unitsBase2[i])
                  /\ err = Nil /\ num = size

\* C5: AsInt returns no error exactly on the strings of the documented
\* grammar.
C5_AcceptsExactlyGrammar ==
    op = "AsInt" => (err = Nil <=> InGrammar(str))

\* C5 witness: a padded number with a fraction, a space and a label is
\* accepted.
C5_Witness ==
    /\ op = "AsInt"
    /\ err = Nil
    /\ str = <<" ", "\t", "4", ".", "5", " ", "K", "i", "B", "\r", "\n", " ">>

\* C6: for every accepted input the returned byte count is exactly the
\* mathematical value.  Refuted: AsInt("20eb") wraps modulo 2^64.
C6_ExactValue ==
    (op = "AsInt" /\ err = Nil) => ExactValue(str, num)

\* the unit table follows the case rule, and labels that differ only in the
\* case of the first letter never share a multiplier
TableFollowsCaseRule ==
    /\ \A l \in DOMAIN unitMap :
        /\ l[1] \in Range(DecimalLetters) \cup Range(BinaryLetters)
        /\ unitMap[l] = CaseRuleMultiplier(l)
    /\ \A l1, l2 \in DOMAIN unitMap :
        (l1[1] # l2[1] /\ Tail(l1) = Tail(l2)) => unitMap[l1] # unitMap[l2]

\* C7: every label of the unit table maps to 1000^i when its first letter is
\* lowercase and to 1024^i when it is uppercase, i fixed by that letter; a
\* digit followed by a label is read accordingly ("4k", "4kb", "4kB" as 4000,
\* "4K", "4KB", "4Kb", "4KiB" as 4096); labels that differ only in the case
\* of the first letter never share a multiplier.
C7_CaseRule ==
    /\ TableFollowsCaseRule
    /\ (op = "AsInt" /\ Len(str) >= 2 /\ IsDigit(str[1]) /\ Tail(str) \in DOMAIN unitMap)
       => /\ err = Nil
          /\ num = MulU64(U64(DigitVal(str[1])), CaseRuleMultiplier(Tail(str)))

\* C7 witness: "4Kb" has been read as 4096.
C7_Witness ==
    op = "AsInt" /\ str = <<"4", "K", "b">> /\ num = U64(4096) /\ err = Nil

\* C8: MarshalText returns AsStr of the receiver and no error, and leaves
\* the receiver alone; UnmarshalText sets the receiver to AsInt's value when
\* AsInt succeeds, and otherwise returns AsInt's error and leaves the
\* receiver as it was.
C8_TextHooks ==
    [][/\ op' = "MarshalText"
          => out' = AsStr(sz) /\ err' = Nil /\ sz' = sz
       /\ op' = "UnmarshalText"
          => IF AsInt(str').err = Nil
             THEN sz' = AsInt(str').num /\ err' = Nil
             ELSE sz' = sz /\ err' = AsInt(str').err]_vars

\* C8 witness: a failed UnmarshalText has left a non-zero receiver in place.
C8_Witness ==
    op = "UnmarshalText" /\ err = ErrUnits /\ sz = U64(4500)

\* C9: AsStr returns the plain digits below 1000; from 1000 on a decimal
\* label when v % 500 = 0, else a binary label when v % 512 = 0, else the
\* plain digits.
C9_FamilySelection ==
    op # "start" =>
        IF LessU64(size, U64(1000)) THEN PlainDigits(out, size)
        ELSE IF ModU64(size, U64(500)) = Zero64 THEN UsesLabelOf(out, unitsBase10)
        ELSE IF ModU64(size, U64(512)) = Zero64 THEN UsesLabelOf(out, unitsBase2)
        ELSE PlainDigits(out, size)

\* C9 witness: 64000, a multiple of both 500 and 512, came out as "64kb".
C9_Witness ==
    op = "AsStr" /\ size = U64(64000) /\ out = <<"6", "4", "k", "b">>

\* C10: whenever AsStr appends ".5", size % values[idx] is exactly
\* values[idx] / 2.  Refuted: for 1000500, idx = 2 and the remainder is 500.
C10_HalfRemainder ==
    (op # "start" /\ GeqU64(size, U64(1000)) /\ Family(size).base # 0)
    => LET f   == Family(size)
           idx == UnitIndex(size, f.base, 0)
       IN  HasHalf(size, f.values, idx)
           => ModU64(size, f.values[idx + 1]) = DivU64(f.values[idx + 1], U64(2))

\* C11: for every v >= 1000 that passes a divisibility test, the
\* repeated-division loop ends with idx the largest i such that base^i <= v;
\* idx is in 1..6, so values[idx] and units[idx] exist; the integer part
\* v / values[idx] is in 1..base-1, and at idx = 6 at most 18 (decimal) or 15
\* (binary); AsStr returns that integer part followed by units[idx].
C11_IndexInRange ==
    /\ TablesArePowers
    /\ (op # "start" /\ GeqU64(size, U64(1000)) /\ Family(size).base # 0)
       => LET f   == Family(size)
              idx == UnitIndex(size, f.base, 0)
              q   == DivU64(size, Power(f.base, LargestPower(size, f.base)))
          IN  /\ idx = LargestPower(size, f.base)
              /\ idx \in 1..6
              /\ idx + 1 \in DOMAIN f.values
              /\ idx + 1 \in DOMAIN f.units
              /\ GeqU64(q, U64(1))
              /\ LessU64(q, U64(f.base))
              /\ idx = 6 => LessU64(q, U64(IF f.base = 1000 THEN 19 ELSE 16))
              /\ SubSeq(out, 1, Len(FormatUint(q))) = FormatUint(q)
              /\ EndsWith(out, f.units[LargestPower(size, f.base) + 1])

\* C11 witness: the largest multiple of 500, 18446744073709551000, came out
\* with integer part 18 at idx = 6.
C11_Witness ==
    /\ op = "AsStr"
    /\ size = SubU64(MaxUint64, U64(615))
    /\ out = <<"1", "8", ".", "5", "e", "b">>

\* C12: on the trimmed input AsInt's error is that of the first failing
\* step: "no number" iff the string is empty or does not start with an ASCII
\* digit; else "invalid fractional part" iff the digits are followed by '.'
\* without '5' or '0' right after it; else "missing units" iff nothing is
\* left after the fraction and one space; else "invalid delimiter" iff the
\* first character left is not alphabetic; else "invalid units" iff what is
\* left is not a key of the unit table; and the value is 0 with every error.
\* Refuted: "4" followed by the Hebrew letter alef gives "invalid delimiter",
\* and "4" followed by the pound sign gives "invalid units".
C12_ErrorClassification ==
    op = "AsInt" =>
        /\ err = ClassifiedError(Stripped(str))
        /\ err # Nil => num = Zero64

=============================================================================
